---- MODULE Spec2Model ----
(***************************************************************************)
(* Model of two programs of the repository:                                *)
(*   chapter-2/guessing_game/src/main.rs   the guessing loop of main       *)
(*   chapter-4/string-slice/src/main.rs    first_word                      *)
(*                                                                         *)
(* Text is a sequence of one-character strings.  A u32 is kept as a pair   *)
(* <<hi, lo>> of 16-bit limbs (value hi * 2^16 + lo), so that the full     *)
(* 32-bit width of the guess, and values beyond it, can be computed.       *)
(***************************************************************************)
EXTENDS Integers, Sequences, FiniteSets, TLC

VARIABLES pc, secret_number, guess, guess_u32, out, err, reads,
          test_string, single_word, fw_pc

vars == <<pc, secret_number, guess, guess_u32, out, err, reads,
          test_string, single_word, fw_pc>>

game_vars == <<pc, secret_number, guess, guess_u32, out, err, reads>>

fw_vars == <<test_string, single_word, fw_pc>>

\* Number of lines the input stream delivers in a run (the loop has no cap).
MaxAttempts == 3

\* Longest string handed to first_word.
MaxLen == 4

\* The element of a one-element set.  The({ e(x) : x \in {d} }) is e with x
\* the value of d, computed once.
The(S) == CHOOSE x \in S : TRUE

(***************************************************************************)
(* Numbers: u32 as two 16-bit limbs.                                       *)
(***************************************************************************)
Limb == 2^16

\* The number n (0 <= n < 2^31) as limbs.
Num(n) == <<n \div Limb, n % Limb>>

Zero == Num(0)

\* u32::MAX
U32_MAX == <<Limb - 1, Limb - 1>>

\* Whether the limbs v denote a value a u32 can hold.
FitsU32(v) == v[1] < Limb

NumLess(a, b) == a[1] < b[1] \/ (a[1] = b[1] /\ a[2] < b[2])

\* v * m + d for small m and d, carried across the limbs, never truncated.
MulAdd(v, m, d) ==
    LET low == v[2] * m + d
    IN  <<v[1] * m + (low \div Limb), low % Limb>>

wrapping_mul(v, m) ==
    LET p == MulAdd(v, m, 0)
    IN  [some |-> TRUE, val |-> <<p[1] % Limb, p[2]>>]

\* u32::checked_mul: None when the product does not fit.
checked_mul(v, m) ==
    LET p == MulAdd(v, m, 0)
    IN  IF FitsU32(p) THEN [some |-> TRUE, val |-> p]
                      ELSE [some |-> FALSE, val |-> Zero]

\* u32::checked_add: None when the sum does not fit.
checked_add(v, d) ==
    LET p == MulAdd(v, 1, d)
    IN  IF FitsU32(p) THEN [some |-> TRUE, val |-> p]
                      ELSE [some |-> FALSE, val |-> Zero]

cmp_swapped(a, b) ==
    IF NumLess(a, b) THEN "Greater"
    ELSE IF NumLess(b, a) THEN "Less"
    ELSE "Equal"

\* Ord::cmp on u32.
cmp(a, b) ==
    IF NumLess(a, b) THEN "Less"
    ELSE IF NumLess(b, a) THEN "Greater"
    ELSE "Equal"

(***************************************************************************)
(* Text: decimal formatting, trimming, parsing.                            *)
(***************************************************************************)
DigitChars == <<"0", "1", "2", "3", "4", "5", "6", "7", "8", "9">>

IsDigit(c) == \E d \in 1..10 : DigitChars[d] = c

\* char::to_digit(10) of a digit character.
to_digit(c) == (CHOOSE d \in 1..10 : DigitChars[d] = c) - 1

\* Quotient and remainder of the limbs v by 10.
DivMod10(v) ==
    LET mid == (v[1] % 10) * Limb + v[2]
    IN  [quot |-> <<v[1] \div 10, mid \div 10>>, rem |-> mid % 10]

\* Display of an unsigned integer: its decimal digits, no sign, no padding.
RECURSIVE to_string(_)
to_string(v) ==
    The({ IF qr.quot = Zero THEN <<DigitChars[qr.rem + 1]>>
          ELSE Append(to_string(qr.quot), DigitChars[qr.rem + 1])
          : qr \in {DivMod10(v)} })

\* Characters str::trim removes (those of White_Space the inputs use).
Whitespace == {" ", "\t", "\n", "\r"}

RECURSIVE trim_start(_)
trim_start(s) ==
    IF s # <<>> /\ Head(s) \in Whitespace THEN trim_start(Tail(s)) ELSE s

RECURSIVE trim_end(_)
trim_end(s) ==
    IF s # <<>> /\ s[Len(s)] \in Whitespace
    THEN trim_end(SubSeq(s, 1, Len(s) - 1))
    ELSE s

\* str::trim
trim(s) == trim_end(trim_start(s))

Ok(v) == [ok |-> TRUE, val |-> v, kind |-> "none"]

Err(k) == [ok |-> FALSE, val |-> Zero, kind |-> k]

\* The digit loop of u32::from_str_radix(_, 10): result = result * 10 + digit,
\* both steps checked.
RECURSIVE parse_digits(_, _, _)
parse_digits(digits, i, result) ==
    IF i > Len(digits) THEN Ok(result)
    ELSE IF ~IsDigit(digits[i]) THEN Err("InvalidDigit")
    ELSE The({ IF ~m.some THEN Err("PosOverflow")
               ELSE The({ IF ~a.some THEN Err("PosOverflow")
                          ELSE parse_digits(digits, i + 1, a.val)
                          : a \in {checked_add(m.val, to_digit(digits[i]))} })
               : m \in {checked_mul(result, 10)} })

\* str::parse::<u32>: empty is an error, a lone sign is an error, a leading
\* "+" is skipped, a leading "-" is not a digit of an unsigned type.
parse(src) ==
    IF src = <<>> THEN Err("Empty")
    ELSE IF Len(src) = 1 /\ src[1] \in {"+", "-"} THEN Err("InvalidDigit")
    ELSE IF src[1] = "+" THEN parse_digits(Tail(src), 1, Zero)
    ELSE parse_digits(src, 1, Zero)

(***************************************************************************)
(* chapter-2/guessing_game: main.                                          *)
(***************************************************************************)
\* One line of println! output: the text and the formatted argument.
Line(text) == <<text, <<>>>>

LineArg(text, v) == <<text, to_string(v)>>

gen_range_inclusive(low, high) == low..high

\* Rng::gen_range(low..high): some value of the half-open range.
gen_range(low, high) == low..(high - 1)

\* What read_line can append to the buffer when the secret is s: nothing at
\* end of input, else one line with its terminator.
InputLines(s) ==
    { <<>>,
      <<"\n">>,
      <<"a", "b", "c", "\n">>,
      <<"-", "5", "\n">>,
      <<"0", "\n">>,
      to_string(U32_MAX) \o <<"\n">>,
      to_string(MulAdd(U32_MAX, 1, 1)) \o <<"\n">>,
      to_string(Num(s)) \o <<"\n">>,
      <<" ", " ">> \o to_string(Num(s - 1)) \o <<" ", "\n">>,
      <<"+">> \o to_string(Num(s + 1)) \o <<"\r", "\n">>,
      to_string(<<Limb, s>>) \o <<"\n">> }

\* Lines 6-13: the banner, the secret, the secret's announcement.
Start ==
    /\ pc = "start"
    /\ \E s \in gen_range(1, 101) :
          /\ secret_number' = s
          /\ out' = out \o << Line("Guess the number!"),
                              LineArg("The secret number is {}.", Num(s)) >>
    /\ pc' = "prompt"
    /\ UNCHANGED <<guess, guess_u32, err, reads, fw_vars>>

\* Lines 16-18: the prompt and a fresh, empty buffer.
Prompt ==
    /\ pc = "prompt"
    /\ out' = Append(out, Line("Please input your guess:"))
    /\ guess' = <<>>
    /\ pc' = "read"
    /\ UNCHANGED <<secret_number, guess_u32, err, reads, fw_vars>>

\* Lines 20-22, read_line returns Ok: the line is appended to the buffer.
ReadLine ==
    /\ pc = "read"
    /\ reads < MaxAttempts
    /\ \E line \in InputLines(secret_number) : guess' = guess \o line
    /\ reads' = reads + 1
    /\ pc' = "parse"
    /\ UNCHANGED <<secret_number, guess_u32, out, err, fw_vars>>

ReadFailRetry ==
    /\ pc = "read"
    /\ pc' = "prompt"
    /\ UNCHANGED <<secret_number, guess, guess_u32, out, err, reads, fw_vars>>

\* Lines 20-22, read_line returns Err: expect panics with its message.
ReadFail ==
    /\ pc = "read"
    /\ err' = Append(err, "Failed to read line!!")
    /\ pc' = "panicked"
    /\ UNCHANGED <<secret_number, guess, guess_u32, out, reads, fw_vars>>

ParseUnwrapOrDefault ==
    /\ pc = "parse"
    /\ \E t \in {trim(guess)} : \E r \in {parse(t)} :
          /\ guess_u32' = IF r.ok THEN r.val ELSE Zero
          /\ pc' = "echo"
    /\ UNCHANGED <<secret_number, guess, out, err, reads, fw_vars>>

ParseNonZero ==
    /\ pc = "parse"
    /\ \E t \in {trim(guess)} : \E r \in {parse(t)} :
          IF r.ok /\ r.val # Zero
          THEN guess_u32' = r.val /\ pc' = "echo"
          ELSE guess_u32' = guess_u32 /\ pc' = "prompt"
    /\ UNCHANGED <<secret_number, guess, out, err, reads, fw_vars>>

\* Lines 24-27: Ok(num) binds the guess, Err(_) continues the loop.
Parse ==
    /\ pc = "parse"
    /\ \E t \in {trim(guess)} : \E r \in {parse(t)} :
          IF r.ok
          THEN guess_u32' = r.val /\ pc' = "echo"
          ELSE guess_u32' = guess_u32 /\ pc' = "prompt"
    /\ UNCHANGED <<secret_number, guess, out, err, reads, fw_vars>>

\* Line 29.
Echo ==
    /\ pc = "echo"
    /\ out' = Append(out, LineArg("You guessed: {}", guess_u32))
    /\ pc' = "compare"
    /\ UNCHANGED <<secret_number, guess, guess_u32, err, reads, fw_vars>>

CompareNoBreak ==
    /\ pc = "compare"
    /\ LET o == cmp(guess_u32, Num(secret_number))
       IN  out' = Append(out, Line(IF o = "Less" THEN "Too small!"
                                   ELSE IF o = "Greater" THEN "Too big!"
                                   ELSE "You win!"))
    /\ pc' = "prompt"
    /\ UNCHANGED <<secret_number, guess, guess_u32, err, reads, fw_vars>>

CompareRegen ==
    /\ pc = "compare"
    /\ LET o == cmp(guess_u32, Num(secret_number))
       IN  \/ /\ o = "Less"
              /\ out' = Append(out, Line("Too small!"))
              /\ \E s \in gen_range(1, 101) : secret_number' = s
              /\ pc' = "prompt"
           \/ /\ o = "Greater"
              /\ out' = Append(out, Line("Too big!"))
              /\ \E s \in gen_range(1, 101) : secret_number' = s
              /\ pc' = "prompt"
           \/ /\ o = "Equal"
              /\ out' = Append(out, Line("You win!"))
              /\ secret_number' = secret_number
              /\ pc' = "done"
    /\ UNCHANGED <<guess, guess_u32, err, reads, fw_vars>>

CompareBreakAlways ==
    /\ pc = "compare"
    /\ LET o == cmp(guess_u32, Num(secret_number))
       IN  out' = Append(out, Line(IF o = "Less" THEN "Too small!"
                                   ELSE IF o = "Greater" THEN "Too big!"
                                   ELSE "You win!"))
    /\ pc' = "done"
    /\ UNCHANGED <<secret_number, guess, guess_u32, err, reads, fw_vars>>

\* Lines 31-38: the three arms of the match; Equal breaks out of the loop
\* and main returns.
Compare ==
    /\ pc = "compare"
    /\ LET o == cmp(guess_u32, Num(secret_number))
       IN  \/ /\ o = "Less"
              /\ out' = Append(out, Line("Too small!"))
              /\ pc' = "prompt"
           \/ /\ o = "Greater"
              /\ out' = Append(out, Line("Too big!"))
              /\ pc' = "prompt"
           \/ /\ o = "Equal"
              /\ out' = Append(out, Line("You win!"))
              /\ pc' = "done"
    /\ UNCHANGED <<secret_number, guess, guess_u32, err, reads, fw_vars>>

Init ==
    /\ pc = "start"
    /\ secret_number = 0
    /\ guess = <<>>
    /\ guess_u32 = Zero
    /\ out = <<>>
    /\ err = <<>>
    /\ reads = 0
    /\ test_string = <<>>
    /\ single_word = <<>>
    /\ fw_pc = "idle"

Next ==
    \/ Start
    \/ Prompt
    \/ ReadLine
    \/ ReadFail
    \/ Parse
    \/ Echo
    \/ Compare

Spec == Init /\ [][Next]_vars

\* The steps main takes by itself; the read waits for the input stream.
Run ==
    \/ Start
    \/ Prompt
    \/ Parse
    \/ Echo
    \/ Compare

\* main runs on: every step but the blocking read is taken once enabled.
FairSpec == Spec /\ WF_vars(Run)

(***************************************************************************)
(* chapter-4/string-slice: first_word and the main that calls it.          *)
(***************************************************************************)
\* The bytes the strings handed to first_word are made of.
FwBytes == {"h", "w", " "}

\* Every string of at most n bytes.
Strings(n) == UNION { [1..k -> FwBytes] : k \in 0..n }

\* &s[a..b]: the bytes at the 0-based indices a, ..., b - 1.
slice(s, a, b) == SubSeq(s, a + 1, b)

RECURSIVE first_word_from_inclusive(_, _)
first_word_from_inclusive(s, i) ==
    IF i >= Len(s) THEN slice(s, 0, Len(s))
    ELSE IF s[i + 1] = " " THEN slice(s, 0, i + 1)
    ELSE first_word_from_inclusive(s, i + 1)

\* Lines 11-17: the loop over bytes.iter().enumerate() from 0-based index i
\* on, returning &s[0..i] at the first space, and &s[..] when it runs out.
RECURSIVE first_word_from(_, _)
first_word_from(s, i) ==
    IF i >= Len(s) THEN slice(s, 0, Len(s))
    ELSE IF s[i + 1] = " " THEN slice(s, 0, i)
    ELSE first_word_from(s, i + 1)

first_word(s) == first_word_from(s, 0)

\* Line 3: single_word borrows from test_string, which stays as it is.
CallFirstWord ==
    /\ fw_pc = "call"
    /\ single_word' = first_word(test_string)
    /\ fw_pc' = "print"
    /\ UNCHANGED <<test_string, game_vars>>

\* Line 5.
PrintWord ==
    /\ fw_pc = "print"
    /\ out' = Append(out, <<"{}", single_word>>)
    /\ fw_pc' = "done"
    /\ UNCHANGED <<test_string, single_word, pc, secret_number, guess,
                   guess_u32, err, reads>>

\* Line 2, with the string drawn from every string of at most MaxLen bytes.
InitFW ==
    /\ pc = "idle"
    /\ secret_number = 0
    /\ guess = <<>>
    /\ guess_u32 = Zero
    /\ out = <<>>
    /\ err = <<>>
    /\ reads = 0
    /\ test_string \in Strings(MaxLen)
    /\ single_word = <<>>
    /\ fw_pc = "call"

NextFW ==
    \/ CallFirstWord
    \/ PrintWord

SpecFW == InitFW /\ [][NextFW]_vars

(***************************************************************************)
(* Vocabulary of the properties.                                           *)
(***************************************************************************)
\* The two states of the guessing loop, and what lies outside it.
State ==
    IF pc \in {"prompt", "read", "parse", "echo", "compare"}
    THEN "AWAITING_INPUT"
    ELSE IF pc = "done" THEN "DONE" ELSE pc

\* A non-empty run of decimal digits.
IsDecimal(t) == t # <<>> /\ \A i \in 1..Len(t) : IsDigit(t[i])

\* The number a run of decimal digits denotes, however large.
RECURSIVE Value(_)
Value(t) ==
    IF t = <<>> THEN Zero
    ELSE MulAdd(Value(SubSeq(t, 1, Len(t) - 1)), 10, to_digit(t[Len(t)]))

\* The digits of a numeral with its optional "+" dropped.
Unsigned(t) == IF t # <<>> /\ t[1] = "+" THEN Tail(t) ELSE t

IsEmptyInput(t) == t = <<>>

IsNonNumeric(t) == \E i \in 1..Len(t) : ~IsDigit(t[i]) /\ t[i] \notin {"+", "-"}

IsNegative(t) == Len(t) > 1 /\ t[1] = "-" /\ IsDecimal(Tail(t))

IsTooLarge(t) == IsDecimal(Unsigned(t)) /\ ~FitsU32(Value(Unsigned(t)))

EchoText == "You guessed: {}"

OutcomeTexts == {"Too small!", "Too big!", "You win!"}

IsOutcomeLine(l) == l[1] \in OutcomeTexts

IsEchoLine(l) == l[1] = EchoText

\* The comparison messages printed so far, in order.
Outcomes == SelectSeq(out, IsOutcomeLine)

\* The guesses echoed so far, in order, as printed.
Echoes == SelectSeq(out, IsEchoLine)

\* The message the ordering of the printed guess g against s calls for.
Expected(g, s) ==
    IF NumLess(Value(g), Num(s)) THEN Line("Too small!")
    ELSE IF NumLess(Num(s), Value(g)) THEN Line("Too big!")
    ELSE Line("You win!")

\* A step that prints nothing and leaves the loop where a prompt comes next.
SilentRetry ==
    /\ pc' = "prompt"
    /\ out' = out
    /\ err' = err
    /\ secret_number' = secret_number

(***************************************************************************)
(* Properties.                                                             *)
(***************************************************************************)
\* C1: the loop moves from AWAITING_INPUT to DONE exactly at the comparison
\* of a successfully parsed guess equal to the secret; a smaller guess, a
\* greater guess and a parse failure all leave it in AWAITING_INPUT.
C1_DoneExactlyOnEqualGuess ==
    /\ [](pc \in {"echo", "compare"} => parse(trim(guess)) = Ok(guess_u32))
    /\ [][ /\ (State = "AWAITING_INPUT" /\ State' = "DONE")
              => (pc = "compare" /\ guess_u32 = Num(secret_number))
           /\ (pc = "compare" /\ guess_u32 = Num(secret_number))
              => State' = "DONE"
           /\ (pc = "compare" /\ guess_u32 # Num(secret_number))
              => State' = "AWAITING_INPUT"
           /\ (pc = "parse" /\ ~parse(trim(guess)).ok)
              => State' = "AWAITING_INPUT" ]_vars

C1_Witness ==
    /\ pc = "done"
    /\ guess_u32 = Num(secret_number)
    /\ Len(Outcomes) = 3
    /\ reads = 3

\* C2: every echoed guess is followed by "Too small!" when it is below the
\* secret, "Too big!" when above and "You win!" when equal; comparison
\* messages appear nowhere else; "You win!" is the last line of the output
\* and is there once the loop is done; a first guess equal to the secret
\* wins with no other outcome before it.
C2_OutcomesReflectOrdering ==
    pc # "start" =>
      /\ \A i \in 1..Len(out) :
            (IsEchoLine(out[i]) /\ i < Len(out))
               => out[i + 1] = Expected(out[i][2], secret_number)
      /\ \A i \in 1..Len(out) :
            IsOutcomeLine(out[i]) => (i > 1 /\ IsEchoLine(out[i - 1]))
      /\ \A i \in 1..Len(out) : out[i] = Line("You win!") => i = Len(out)
      /\ pc = "done" => (out # <<>> /\ out[Len(out)] = Line("You win!"))
      /\ (Echoes # <<>> /\ Value(Echoes[1][2]) = Num(secret_number)
            /\ Outcomes # <<>>)
           => Outcomes = <<Line("You win!")>>

C2_Witness ==
    /\ pc = "done"
    /\ Outcomes = <<Line("Too small!"), Line("Too big!"), Line("You win!")>>

\* C3: a line that is empty, non-numeric or negative once trimmed fails to
\* parse, and a failed parse prints nothing, changes neither the secret nor
\* the loop state, and is followed by the prompt.
C3_MalformedInputIsSilent ==
    /\ [](pc = "parse"
            /\ (IsEmptyInput(trim(guess)) \/ IsNonNumeric(trim(guess))
                  \/ IsNegative(trim(guess)))
          => ~parse(trim(guess)).ok)
    /\ [][(pc = "parse" /\ ~parse(trim(guess)).ok)
             => (SilentRetry /\ State' = "AWAITING_INPUT")]_vars
    /\ [][pc = "prompt"
             => (out' = Append(out, Line("Please input your guess:"))
                   /\ pc' = "read")]_vars

C3_Witness ==
    /\ pc = "read"
    /\ reads = 3
    /\ Echoes = <<>>
    /\ Len(out) = 6

\* C4: once generated the secret lies in [1,100], nothing is prompted
\* before it is generated, and no step of the loop changes it.
C4_SecretFixedInRange ==
    /\ [](pc = "start" => out = <<>>)
    /\ [](pc # "start" => secret_number \in 1..100)
    /\ [][pc # "start" => secret_number' = secret_number]_vars

C4_Witness ==
    /\ pc = "done"
    /\ secret_number = 100
    /\ reads = 3

\* C5 as stated: every guess that reaches the echo and the comparison is at
\* least 1.
C5_GuessIsPositive ==
    pc \in {"echo", "compare"} => NumLess(Zero, guess_u32)

\* C5 amended: every guess that reaches the echo and the comparison is the
\* value of the trimmed input's digits and fits a u32 (0 included); the
\* input "0" is parsed to the guess 0, which is echoed and answered
\* "Too small!".
C5_GuessIsUnsigned ==
    /\ [](pc \in {"echo", "compare"}
            => /\ IsDecimal(Unsigned(trim(guess)))
               /\ guess_u32 = Value(Unsigned(trim(guess)))
               /\ FitsU32(guess_u32))
    /\ [][(pc = "parse" /\ trim(guess) = <<"0">>)
             => (pc' = "echo" /\ guess_u32' = Zero)]_vars
    /\ [][(pc = "echo" /\ guess_u32 = Zero)
             => out' = Append(out, <<EchoText, <<"0">>>>)]_vars
    /\ [][(pc = "compare" /\ guess_u32 = Zero)
             => (out' = Append(out, Line("Too small!"))
                   /\ pc' = "prompt")]_vars

C5_Witness ==
    /\ pc = "prompt"
    /\ Len(out) >= 2
    /\ out[Len(out) - 1] = <<EchoText, <<"0">>>>
    /\ out[Len(out)] = Line("Too small!")

\* C6: a read that fails ends the run in the panic at that read, with the
\* expect message and nothing printed; after it no step is taken: no
\* prompt, echo, message or read, and no return to AWAITING_INPUT.
C6_ReadFailureIsFatal ==
    /\ [][(pc = "read" /\ reads' = reads)
             => (pc' = "panicked" /\ out' = out
                   /\ err' = <<"Failed to read line!!">>)]_vars
    /\ [][pc = "panicked"
             => (pc' = "panicked" /\ out' = out /\ reads' = reads
                   /\ err' = err)]_vars
    /\ [](pc = "panicked" => State # "AWAITING_INPUT")

C6_Witness ==
    /\ pc = "panicked"
    /\ reads = 2
    /\ err = <<"Failed to read line!!">>

\* C7: two echoes of the same guess in one run are answered by the same
\* comparison message, whatever was entered before or between them.
C7_SameGuessSameOutcome ==
    \A i, j \in 1..Len(out) :
        ( /\ IsEchoLine(out[i]) /\ IsEchoLine(out[j])
          /\ out[i][2] = out[j][2]
          /\ i < Len(out) /\ j < Len(out) )
        => out[i + 1] = out[j + 1]

C7_Witness ==
    \E i, j \in 1..Len(out) :
        /\ i + 3 < j /\ j < Len(out)
        /\ IsEchoLine(out[i]) /\ IsEchoLine(out[j])
        /\ out[i][2] = out[j][2]
        /\ out[i + 1] = Line("Too big!")
        /\ out[j + 1] = Line("Too big!")

\* C8: as long as nothing won and no read failed the loop is in
\* AWAITING_INPUT, after any number of inputs; DONE is entered only on a
\* guess equal to the secret; a delivered line that parses to the secret
\* leads to DONE; in DONE "You win!" is the last line of the output and
\* occurs once, and nothing follows.
C8_OnlyCorrectGuessEnds ==
    /\ []((pc # "start" /\ err = <<>> /\ Line("You win!") \notin
              {out[i] : i \in 1..Len(out)})
            => State = "AWAITING_INPUT")
    /\ [][State' = "DONE" => guess_u32 = Num(secret_number)]_vars
    /\ ((pc = "parse" /\ parse(trim(guess)) = Ok(Num(secret_number)))
          ~> (pc = "done"))
    /\ [](pc = "done"
            => /\ out[Len(out)] = Line("You win!")
               /\ Cardinality({i \in 1..Len(out) : out[i] = Line("You win!")})
                    = 1)
    /\ [][pc = "done" => UNCHANGED vars]_vars

C8_Witness ==
    /\ pc = "done"
    /\ reads = MaxAttempts
    /\ Len(Outcomes) = 1

\* C9: a numeral beyond u32::MAX, or a negative one, fails to parse and the
\* step is silent; the guess compared is the very number the digits denote,
\* never that number reduced modulo 2^32.
C9_OutOfRangeNeverWraps ==
    /\ [][(pc = "parse"
             /\ (IsTooLarge(trim(guess)) \/ IsNegative(trim(guess))))
             => (SilentRetry /\ guess_u32' = guess_u32)]_vars
    /\ [](pc = "compare" => ~IsTooLarge(trim(guess)))
    /\ [](pc = "compare" => guess_u32 = Value(Unsigned(trim(guess))))

C9_Witness ==
    /\ pc = "prompt"
    /\ reads = 1
    /\ trim(guess) = to_string(<<Limb, secret_number>>)
    /\ Outcomes = <<>>

IsPrefix(r, s) == Len(r) <= Len(s) /\ \A i \in 1..Len(r) : r[i] = s[i]

HasNoSpace(r) == \A i \in 1..Len(r) : r[i] # " "

\* C10: first_word returns the longest prefix of its argument that holds no
\* space: the bytes before the first space, or the whole string when there
\* is none; the argument is left as it was.
C10_FirstWordIsLongestSpaceFreePrefix ==
    /\ [](fw_pc \in {"print", "done"}
            => /\ IsPrefix(single_word, test_string)
               /\ HasNoSpace(single_word)
               /\ (Len(single_word) = Len(test_string)
                     \/ test_string[Len(single_word) + 1] = " "))
    /\ [][test_string' = test_string]_vars

C10_Witness ==
    /\ fw_pc = "print"
    /\ single_word # <<>>
    /\ Len(single_word) + 1 < Len(test_string)

====
